---- MODULE Spec2Model ----
(***************************************************************************)
(* Model of CompanionApps/Linux/bluetooth_companion_app.py: the BLE        *)
(* scanner (BLEScanner), its asyncio worker thread (AsyncioWorker), the    *)
(* GLib main thread that owns the device registry and the availability     *)
(* state (CompanionWindow), and the adapter (BleakScanner objects).        *)
(*                                                                         *)
(* Conventions.  A Python str is a sequence of one-character strings.      *)
(* Optional[x] is a sequence of length 0 (None) or 1 (the value).          *)
(***************************************************************************)
EXTENDS Integers, Sequences, FiniteSets, TLC

None == <<>>
Some(x) == <<x>>

(* ---------------------------------------------------------------- bounds *)
MaxTasks == 2       \* coroutines submitted to the worker and not finished
MaxIdle == 2        \* on_device callbacks waiting in the GLib idle queue
MaxShutdowns == 2   \* calls of BLEScanner.shutdown

(* ------------------------------------------------------- BluetoothState *)
UNKNOWN == "unknown"
READY == "ready"
DISABLED == "disabled"
UNSUPPORTED == "unsupported"
NO_PERMISSION == "no_permission"

(* ------------------------------------------------------------- strings *)
UpperChars ==
    <<"A", "B", "C", "D", "E", "F", "G", "H", "I", "J", "K", "L", "M",
      "N", "O", "P", "Q", "R", "S", "T", "U", "V", "W", "X", "Y", "Z">>
LowerChars ==
    <<"a", "b", "c", "d", "e", "f", "g", "h", "i", "j", "k", "l", "m",
      "n", "o", "p", "q", "r", "s", "t", "u", "v", "w", "x", "y", "z">>

LowerChar(c) ==
    IF \E i \in 1..Len(UpperChars) : UpperChars[i] = c
    THEN LowerChars[CHOOSE i \in 1..Len(UpperChars) : UpperChars[i] = c]
    ELSE c

lower(s) == [i \in 1..Len(s) |-> LowerChar(s[i])]

\* Python's "sub in s" on strings
Contains(sub, s) ==
    \E i \in 0..(Len(s) - Len(sub)) : SubSeq(s, i + 1, i + Len(sub)) = sub

IsSpace(c) == c = " "

RECURSIVE lstrip(_)
lstrip(s) == IF s # <<>> /\ IsSpace(Head(s)) THEN lstrip(Tail(s)) ELSE s

RECURSIVE rstrip(_)
rstrip(s) ==
    IF s # <<>> /\ IsSpace(s[Len(s)]) THEN rstrip(SubSeq(s, 1, Len(s) - 1)) ELSE s

strip(s) == rstrip(lstrip(s))

(* ------------------------------------------------------------ BLEDevice *)
UnknownName == <<"U", "n", "k", "n", "o", "w", "n">>

display_name(d) ==
    IF d.local_name # None /\ d.local_name[1] # <<>> THEN d.local_name[1]
    ELSE IF d.name # <<>> THEN d.name
    ELSE UnknownName

\* the comparisons of lines 44-49 made strict
rssi_description_strict(d) ==
    IF d.rssi > -50 THEN "Excellent"
    ELSE IF d.rssi > -60 THEN "Good"
    ELSE IF d.rssi > -70 THEN "Fair"
    ELSE "Weak"

rssi_description(d) ==
    IF d.rssi >= -50 THEN "Excellent"
    ELSE IF d.rssi >= -60 THEN "Good"
    ELSE IF d.rssi >= -70 THEN "Fair"
    ELSE "Weak"

\* the for loop with a match that has to be contiguous: a character that does
\* not continue the match starts it over
RECURSIVE GreedyIndexRestart(_, _, _, _)
GreedyIndexRestart(name, query, i, query_index) ==
    IF i > Len(name) THEN query_index
    ELSE IF query_index < Len(query) /\ name[i] = query[query_index + 1]
         THEN GreedyIndexRestart(name, query, i + 1, query_index + 1)
         ELSE IF query_index < Len(query)
              THEN GreedyIndexRestart(name, query, i + 1, 0)
              ELSE GreedyIndexRestart(name, query, i + 1, query_index)

\* the for loop of lines 84-87: query_index after scanning name[i..]
RECURSIVE GreedyIndex(_, _, _, _)
GreedyIndex(name, query, i, query_index) ==
    IF i > Len(name) THEN query_index
    ELSE IF query_index < Len(query) /\ name[i] = query[query_index + 1]
         THEN GreedyIndex(name, query, i + 1, query_index + 1)
         ELSE GreedyIndex(name, query, i + 1, query_index)

matches_fuzzy_search(d, query) ==
    IF query = <<>> THEN TRUE
    ELSE LET lower_query == lower(query)
             lower_name == lower(display_name(d))
         IN  \/ Contains(lower_query, lower_name)
             \/ GreedyIndex(lower_name, lower_query, 1, 0) = Len(lower_query)
             \/ \E k \in 1..Len(d.service_uuids) :
                    Contains(lower_query, lower(d.service_uuids[k]))
             \/ Contains(lower_query, lower(d.address))

(* ----------------------------------------------- adapter advertisements *)
\* What the adapter hands to the detection callback: the bleak device
\* (address, name, rssi) and its advertisement data.  A field the object
\* does not carry (getattr's default applies) is None.
AddrA == <<"A", "1">>
AddrB == <<"B", "2">>
Addresses == {AddrA, AddrB}

RawAdvertisements ==
    { [address |-> AddrA, name |-> Some(<<"P", "x", "B", "d">>), local_name |-> None,
       rssi |-> Some(-45), service_uuids |-> None, tx_power |-> None,
       manufacturer_data |-> <<>>, connectable |-> Some(TRUE)],
      [address |-> AddrA, name |-> None, local_name |-> Some(<<"B", "d">>),
       rssi |-> None, service_uuids |-> Some(<< <<"1", "8", "0", "F">> >>),
       tx_power |-> Some(4), manufacturer_data |-> << <<76, <<2, 1>> >>, <<6, <<9>> >> >>,
       connectable |-> None],
      [address |-> AddrB, name |-> Some(<<>>), local_name |-> Some(<<>>),
       rssi |-> Some(-70), service_uuids |-> Some(<<>>), tx_power |-> None,
       manufacturer_data |-> <<>>, connectable |-> Some(FALSE)] }

\* lines 179-202: the BLEDevice built from one advertisement
MatchAdvertisements ==
    { [address |-> AddrA, name |-> Some(<<"P", "i", "x", "e", "l", " ", "B", "u", "d", "s">>), local_name |-> None,
       rssi |-> Some(-45), service_uuids |-> Some(<< <<"1", "8", "0", "F">> >>), tx_power |-> None,
       manufacturer_data |-> <<>>, connectable |-> Some(TRUE)],
      [address |-> AddrB, name |-> Some(<<"h", "i", "d", "d", "e", "n">>), local_name |-> Some(<<"D", "b", "X">>),
       rssi |-> Some(-60), service_uuids |-> Some(<< <<"F", "E", "2", "C">>, <<"1", "8", "0", "a">> >>), tx_power |-> None,
       manufacturer_data |-> <<>>, connectable |-> None],
      [address |-> AddrB, name |-> None, local_name |-> None,
       rssi |-> Some(-80), service_uuids |-> None, tx_power |-> None,
       manufacturer_data |-> <<>>, connectable |-> None] }

\* signal strengths on, next to and between the bounds of the tiers
RssiValues == {0, -45, -50, -51, -55, -60, -61, -65, -70, -71, -90}

RssiAdvertisements ==
    { [address |-> AddrA, name |-> None, local_name |-> None,
       rssi |-> Some(r), service_uuids |-> None, tx_power |-> None,
       manufacturer_data |-> <<>>, connectable |-> None] : r \in RssiValues }

MakeDevice(adv) ==
    [address |-> adv.address,
     name |-> IF adv.name # None /\ adv.name[1] # <<>> THEN adv.name[1] ELSE <<>>,
     local_name |-> adv.local_name,
     rssi |-> IF adv.rssi # None THEN adv.rssi[1] ELSE 0,
     service_uuids |-> IF adv.service_uuids # None THEN adv.service_uuids[1] ELSE <<>>,
     tx_power |-> adv.tx_power,
     manufacturer_data |->
         IF adv.manufacturer_data # <<>> THEN Some(adv.manufacturer_data[1][2]) ELSE None,
     connectable |-> IF adv.connectable # None THEN adv.connectable[1] ELSE FALSE]

(* ------------------------------------------------------- adapter errors *)
\* the markers on_scan_error looks for, lines 512-517
Permission == <<"P", "e", "r", "m", "i", "s", "s", "i", "o", "n">>
NotAuthorized == <<"N", "o", "t", "A", "u", "t", "h", "o", "r", "i", "z", "e", "d">>
NotReady == <<"N", "o", "t", "R", "e", "a", "d", "y">>
NotPowered == <<"N", "o", "t", "P", "o", "w", "e", "r", "e", "d">>
NoAdapter == <<"N", "o", " ", "a", "d", "a", "p", "t", "e", "r">>
NotSupported == <<"N", "o", "t", "S", "u", "p", "p", "o", "r", "t", "e", "d">>

Markers == {Permission, NotAuthorized, NotReady, NotPowered, NoAdapter, NotSupported}

\* str(exc) of the exceptions scanner.start() raises
StartErrors ==
    { <<"o", "r", "g", ".", "b", "l", "u", "e", "z", ".", "E", "r", "r", "o", "r", ".">> \o NotReady,
      NoAdapter \o <<" ", "f", "o", "u", "n", "d">>,
      NotAuthorized \o <<":", " ">> \o NotSupported,
      <<"t", "i", "m", "e", "o", "u", "t">> }

\* error texts with no marker, one marker, or two markers in either order,
\* and two near misses: a marker in lower case and a marker cut short
Join(a, b) == a \o <<":", " ">> \o b

ClassifyInputs ==
    {<<"t", "i", "m", "e", "o", "u", "t">>, lower(Permission), SubSeq(NotReady, 1, 7)}
    \cup Markers
    \cup {Join(a, b) : a \in Markers, b \in Markers}

\* str(exc) of the exception scanner.stop() raises
StopErrors == { <<"o", "r", "g", ".", "b", "l", "u", "e", "z", ".", "E", "r", "r", "o", "r", ".", "F", "a", "i", "l", "e", "d">> }

\* Python's "marker in message"
In(marker, message) == Contains(marker, message)

\* the branches of lines 512-517 in the opposite order
ClassifyLastMatch(message) ==
    IF In(NoAdapter, message) \/ In(NotSupported, message) THEN UNSUPPORTED
    ELSE IF In(NotReady, message) \/ In(NotPowered, message) THEN DISABLED
    ELSE IF In(Permission, message) \/ In(NotAuthorized, message) THEN NO_PERMISSION
    ELSE UNKNOWN

\* lines 512-519
Classify(message) ==
    IF In(Permission, message) \/ In(NotAuthorized, message) THEN NO_PERMISSION
    ELSE IF In(NotReady, message) \/ In(NotPowered, message) THEN DISABLED
    ELSE IF In(NoAdapter, message) \/ In(NotSupported, message) THEN UNSUPPORTED
    ELSE UNKNOWN


(* ---------------------------------------------------------------- state *)
VARIABLES
    devices,            \* CompanionWindow.devices: the dict, in insertion order
    device_rows,        \* CompanionWindow.device_rows: the addresses that have a row
    search_text,        \* CompanionWindow.search_text
    bluetooth_state,    \* CompanionWindow.bluetooth_state
    win_is_scanning,    \* CompanionWindow.is_scanning
    refresh_source,     \* CompanionWindow.refresh_source: None or Some(timer)
    timeouts,           \* GLib: timeout sources that will call refresh_list
    visible_child,      \* the stack's visible child
    list_box,           \* rows of the list: Some(device), or None for "No results"
    count_label,        \* number shown by the count label (0: empty label)
    scan_button,        \* label of the scan button
    reveal_child,       \* scanning_revealer's reveal-child
    is_scanning,        \* BLEScanner.is_scanning
    scanner,            \* BLEScanner.scanner: None or Some(scanner object)
    ready,              \* AsyncioWorker.loop: handles scheduled on the loop
    ntodo,              \* handles left to run in the loop's current iteration
    stopping,           \* the loop's stop flag (loop.stop has run)
    halted,             \* run_forever has returned
    awaiting,           \* coroutines suspended at "await scanner.start()/stop()"
    started,            \* adapter: the scanner objects that are started
    idle,               \* GLib idle sources, in the order they were added
    shutdown_calls,     \* number of calls of BLEScanner.shutdown so far
    shutdown_pc,        \* the main thread is inside shutdown, before worker.stop()
    last_adv            \* history: per address, the last device the adapter reported

window == <<devices, device_rows, search_text, bluetooth_state, win_is_scanning,
            refresh_source, timeouts, visible_child, list_box, count_label, scan_button,
            reveal_child>>
view == <<visible_child, list_box, count_label, scan_button, reveal_child>>
loop == <<ready, ntodo, stopping, halted, awaiting>>
vars == <<window, is_scanning, scanner, loop, started, idle, shutdown_calls,
          shutdown_pc, last_adv>>

\* BleakScanner objects alive at one time: one for each coroutine in flight
MaxScanners == MaxTasks

ScannerIds == 1..MaxScanners

\* a coroutine object: co is "start" or "stop", sc the scanner it awaits on
\* (0 before it has one), res the outcome of the await (None, or the
\* message of the exception raised), shutdown the number of the shutdown
\* call that submitted it (0: submitted by start_scan or stop_scan alone)
Coroutine(co, n) == [kind |-> "create", co |-> co, sc |-> 0, res |-> None, shutdown |-> n]
LoopStop == [kind |-> "loop_stop", co |-> "-", sc |-> 0, res |-> None, shutdown |-> 0]

Callback(fn, arg) == [fn |-> fn, arg |-> arg]

Range(s) == {s[i] : i \in 1..Len(s)}
Remove(s, i) == SubSeq(s, 1, i - 1) \o SubSeq(s, i + 1, Len(s))

\* scanner objects something still refers to
LiveScanners ==
    (started \cup {scanner[i] : i \in 1..Len(scanner)}
             \cup {t.sc : t \in Range(awaiting) \cup Range(ready)}) \ {0}

\* coroutines submitted and not finished
Unfinished == Len(awaiting) + Cardinality({i \in 1..Len(ready) : ready[i].co # "-"})

StartsToCome ==
    Cardinality({i \in 1..Len(ready) : ready[i].co = "start" /\ ready[i].sc = 0})

Init ==
    /\ devices = <<>>
    /\ device_rows = {}
    /\ search_text = <<>>
    /\ bluetooth_state = UNKNOWN
    /\ win_is_scanning = FALSE
    /\ refresh_source = None
    /\ timeouts = 0
    /\ visible_child = "unavailable"
    /\ list_box = <<>>
    /\ count_label = 0
    /\ scan_button = "Scan"
    /\ reveal_child = FALSE
    /\ is_scanning = FALSE
    /\ scanner = None
    /\ ready = <<>>
    /\ ntodo = 0
    /\ stopping = FALSE
    /\ halted = FALSE
    /\ awaiting = <<>>
    /\ started = {}
    /\ idle = <<Callback("start_scanning", None)>>
    /\ shutdown_calls = 0
    /\ shutdown_pc = FALSE
    /\ last_adv = [a \in Addresses |-> None]


(* ------------------------------------------- CompanionWindow: helpers *)
HasAddress(devs, a) == \E i \in 1..Len(devs) : devs[i].address = a

\* the entry of an address already present is kept (dict.setdefault)
SetItemKeepFirst(devs, device) ==
    IF HasAddress(devs, device.address) THEN devs ELSE Append(devs, device)

\* line 496: self.devices[device.address] = device
SetItem(devs, device) ==
    IF HasAddress(devs, device.address)
    THEN [i \in 1..Len(devs) |->
             IF devs[i].address = device.address THEN device ELSE devs[i]]
    ELSE Append(devs, device)

\* a timeout is added whether or not one is pending
schedule_refresh_unguarded ==
    /\ refresh_source' = Some("refresh_list")
    /\ timeouts' = timeouts + 1

\* lines 555-557
schedule_refresh ==
    IF refresh_source = None
    THEN /\ refresh_source' = Some("refresh_list")
         /\ timeouts' = timeouts + 1
    ELSE UNCHANGED <<refresh_source, timeouts>>

\* lines 607-618: the child update_view makes visible
update_view(state, devs, scanning) ==
    IF state \in {DISABLED, UNSUPPORTED, NO_PERMISSION} THEN "unavailable"
    ELSE IF devs = <<>> /\ ~scanning THEN "empty"
    ELSE "list"

\* lines 547-553
update_scan_button(scanning) == IF scanning THEN "Stop" ELSE "Scan"

\* line 281: what the row of a device shows as rssi_desc_label
rssi_desc_label(row) == rssi_description(row[1])

\* lines 571-575
Filtered(devs, query) == SelectSeq(devs, LAMBDA d : matches_fuzzy_search(d, query))

\* the sort without reverse=True
RECURSIVE InsertByRssiAscending(_, _)
InsertByRssiAscending(sorted, d) ==
    IF sorted = <<>> THEN <<d>>
    ELSE IF Head(sorted).rssi <= d.rssi
         THEN <<Head(sorted)>> \o InsertByRssiAscending(Tail(sorted), d)
    ELSE <<d>> \o sorted

\* list.sort(key=rssi, reverse=True): stable, equal keys keep their order
RECURSIVE InsertByRssi(_, _)
InsertByRssi(sorted, d) ==
    IF sorted = <<>> THEN <<d>>
    ELSE IF Head(sorted).rssi >= d.rssi THEN <<Head(sorted)>> \o InsertByRssi(Tail(sorted), d)
    ELSE <<d>> \o sorted

RECURSIVE SortByRssi(_)
SortByRssi(devs) ==
    IF devs = <<>> THEN <<>>
    ELSE InsertByRssi(SortByRssi(SubSeq(devs, 1, Len(devs) - 1)), devs[Len(devs)])

\* lines 571-576: what refresh_list shows for the registry and the query
Snapshot(devs, query) == SortByRssi(Filtered(devs, query))

\* lines 590-597: the keys of the rows dict after the snapshot's rows are made
RowsAfter(rows, snapshot) == rows \cup {snapshot[i].address : i \in 1..Len(snapshot)}

(* ------------------------------------------------ BLEScanner: commands *)
\* results of finished coroutines not yet handed to the main thread's handlers
Undelivered == Cardinality({i \in 1..Len(idle) : idle[i].fn \in {"_set_scanning", "on_error"}})

Room == Unfinished + Undelivered < MaxTasks

\* lines 132-135
start_scan ==
    IF is_scanning THEN UNCHANGED ready
    ELSE /\ Room
         /\ Cardinality(LiveScanners) + StartsToCome < MaxScanners
         /\ ready' = Append(ready, Coroutine("start", 0))

\* lines 137-140; n is the number of the shutdown call making it (0: none)
stop_scan(n) ==
    IF ~is_scanning THEN UNCHANGED ready
    ELSE /\ Room
         /\ ready' = Append(ready, Coroutine("stop", n))

(* ------------------------------------------- CompanionWindow: handlers *)
\* lines 495-498
on_device(device) ==
    /\ devices' = SetItem(devices, device)
    /\ schedule_refresh
    /\ UNCHANGED <<device_rows, search_text, bluetooth_state, win_is_scanning, view,
                   is_scanning, ready>>

\* on_scan_state without lines 502-503
on_scan_state_keeps_state(scanning) ==
    /\ win_is_scanning' = scanning
    /\ bluetooth_state' = bluetooth_state
    /\ scan_button' = update_scan_button(scanning)
    /\ visible_child' = update_view(bluetooth_state', devices, scanning)
    /\ reveal_child' = scanning
    /\ UNCHANGED <<devices, device_rows, search_text, refresh_source, timeouts,
                   list_box, count_label, ready>>

\* lines 500-505
on_scan_state(scanning) ==
    /\ win_is_scanning' = scanning
    /\ bluetooth_state' = IF scanning THEN READY ELSE bluetooth_state
    /\ scan_button' = update_scan_button(scanning)
    /\ visible_child' = update_view(bluetooth_state', devices, scanning)
    /\ reveal_child' = scanning
    /\ UNCHANGED <<devices, device_rows, search_text, refresh_source, timeouts,
                   list_box, count_label, ready>>

\* lines 173-176
set_scanning(value) ==
    /\ is_scanning' = value
    /\ on_scan_state(value)

\* lines 507-524
on_scan_error(error) ==
    /\ bluetooth_state' = Classify(error)
    /\ win_is_scanning' = FALSE
    /\ scan_button' = update_scan_button(FALSE)
    /\ visible_child' = update_view(bluetooth_state', devices, FALSE)
    /\ reveal_child' = FALSE
    /\ UNCHANGED <<devices, device_rows, search_text, refresh_source, timeouts,
                   list_box, count_label, is_scanning, ready>>

\* start_scanning without the check of lines 527-528
start_scanning_unguarded ==
    /\ devices' = <<>>
    /\ schedule_refresh
    /\ start_scan
    /\ UNCHANGED <<device_rows, search_text, bluetooth_state, win_is_scanning,
                   view, is_scanning>>

\* lines 526-531
start_scanning ==
    IF bluetooth_state \in {UNSUPPORTED, NO_PERMISSION}
    THEN UNCHANGED <<window, is_scanning, ready>>
    ELSE /\ devices' = <<>>
         /\ schedule_refresh
         /\ start_scan
         /\ UNCHANGED <<device_rows, search_text, bluetooth_state, win_is_scanning,
                        view, is_scanning>>

\* lines 533-534
stop_scanning ==
    /\ stop_scan(0)
    /\ UNCHANGED <<window, is_scanning>>

\* lines 536-540
toggle_scanning == IF win_is_scanning THEN stop_scanning ELSE start_scanning

\* clear_devices without line 543: the rows are dropped, the registry is kept
clear_devices_keeps_registry ==
    /\ devices' = devices
    /\ device_rows' = {}
    /\ schedule_refresh
    /\ UNCHANGED <<search_text, bluetooth_state, win_is_scanning, view, is_scanning,
                   ready>>

\* lines 542-545
clear_devices ==
    /\ devices' = <<>>
    /\ device_rows' = {}
    /\ schedule_refresh
    /\ UNCHANGED <<search_text, bluetooth_state, win_is_scanning, view, is_scanning,
                   ready>>

\* lines 491-493
on_search_changed(text) ==
    /\ search_text' = strip(text)
    /\ schedule_refresh
    /\ UNCHANGED <<devices, device_rows, bluetooth_state, win_is_scanning, view,
                   is_scanning, ready>>

\* refresh_list without line 560: refresh_source keeps the id of the spent timer
refresh_list_keeps_source ==
    /\ timeouts' = timeouts - 1
    /\ refresh_source' = refresh_source
    /\ visible_child' = update_view(bluetooth_state, devices, win_is_scanning)
    /\ reveal_child' = win_is_scanning
    /\ IF visible_child' # "list"
       THEN UNCHANGED <<list_box, device_rows, count_label>>
       ELSE LET filtered == Snapshot(devices, search_text)
            IN  /\ list_box' = IF filtered = <<>> /\ search_text # <<>>
                               THEN <<None>>
                               ELSE [i \in 1..Len(filtered) |-> Some(filtered[i])]
                /\ device_rows' = IF filtered = <<>> /\ search_text # <<>>
                                  THEN device_rows
                                  ELSE RowsAfter(device_rows, filtered)
                /\ count_label' = Len(filtered)
    /\ UNCHANGED <<devices, search_text, bluetooth_state, win_is_scanning, scan_button,
                   is_scanning, ready>>

\* lines 559-605; GLib removes the timeout source, whose callback returns False
refresh_list ==
    /\ timeouts' = timeouts - 1
    /\ refresh_source' = None
    /\ visible_child' = update_view(bluetooth_state, devices, win_is_scanning)
    /\ reveal_child' = win_is_scanning
    /\ IF visible_child' # "list"
       THEN UNCHANGED <<list_box, device_rows, count_label>>
       ELSE LET filtered == Snapshot(devices, search_text)
            IN  /\ list_box' = IF filtered = <<>> /\ search_text # <<>>
                               THEN <<None>>
                               ELSE [i \in 1..Len(filtered) |-> Some(filtered[i])]
                /\ device_rows' = IF filtered = <<>> /\ search_text # <<>>
                                  THEN device_rows
                                  ELSE RowsAfter(device_rows, filtered)
                /\ count_label' = Len(filtered)
    /\ UNCHANGED <<devices, search_text, bluetooth_state, win_is_scanning, scan_button,
                   is_scanning, ready>>


(* ------------------------------------------------ main thread: actions *)
\* The main loop runs handlers until the close request: on_close_request
\* returns False, the window is destroyed and the application quits.
MainThread == ~shutdown_pc /\ shutdown_calls = 0

worker_side == <<scanner, ntodo, stopping, halted, awaiting, started, last_adv>>

\* GLib runs the oldest idle source; the callback returns False and is removed
Dispatch(fn) ==
    /\ MainThread
    /\ idle # <<>>
    /\ Head(idle).fn = fn
    /\ idle' = Tail(idle)
    /\ UNCHANGED <<worker_side, shutdown_calls, shutdown_pc>>

IdleStartScanning == Dispatch("start_scanning") /\ start_scanning
IdleSetScanning == Dispatch("_set_scanning") /\ set_scanning(Head(idle).arg)
IdleOnError == Dispatch("on_error") /\ on_scan_error(Head(idle).arg)
IdleOnDevice == Dispatch("on_device") /\ on_device(Head(idle).arg)

\* a signal or a timeout handled by the main thread
Signal ==
    /\ MainThread
    /\ UNCHANGED <<worker_side, idle, shutdown_calls, shutdown_pc>>

Timeout == Signal /\ timeouts > 0 /\ refresh_list
ClickScan == Signal /\ toggle_scanning
ClickStartScanning == Signal /\ start_scanning
ClickClear == Signal /\ clear_devices

SearchTexts == { <<>>, <<" ", "P", "B", " ">>, <<"z">> }

SearchChanged == \E text \in SearchTexts : Signal /\ on_search_changed(text)

\* what the user types when looking for a device
MatchQueries ==
    { <<>>,
      <<"p", "x", "b", "d">>,
      <<"d", "b", "x">>,
      <<"P", "I", "X", "E", "L">>,
      <<"l", " ", "B">>,
      <<"8", "0", "f">>,
      <<"e", "2">>,
      <<"a", "1">>,
      <<"B", "2">>,
      <<"k", "n", "o", "w">>,
      <<"h", "i", "d">>,
      <<"p", "p">>,
      <<"s", "d", "u", "b">>,
      <<"z">> }

\* the user types a query when the list has settled
SearchMatch ==
    /\ refresh_source = None
    /\ idle = <<>>
    /\ \E text \in MatchQueries : Signal /\ on_search_changed(text)

\* line 149: shutdown calls stop_scan
ShutdownStopScan ==
    /\ ~shutdown_pc
    /\ shutdown_calls < MaxShutdowns
    /\ shutdown_calls' = shutdown_calls + 1
    /\ shutdown_pc' = TRUE
    /\ stop_scan(shutdown_calls + 1)
    /\ UNCHANGED <<window, is_scanning, worker_side, idle>>

\* shutdown returns without worker.stop()
ShutdownWorkerStopMissing ==
    /\ shutdown_pc
    /\ shutdown_pc' = FALSE
    /\ UNCHANGED <<window, is_scanning, worker_side, idle, shutdown_calls, ready>>

\* line 150 with lines 114-115: worker.stop()
ShutdownWorkerStop ==
    /\ shutdown_pc
    /\ shutdown_pc' = FALSE
    /\ ready' = Append(ready, LoopStop)
    /\ UNCHANGED <<window, is_scanning, worker_side, idle, shutdown_calls>>

(* ---------------------------------------------- worker thread: actions *)
consumer_side == <<window, is_scanning, shutdown_calls, shutdown_pc>>

\* run_forever: each iteration of the loop runs the handles that are ready when
\* it begins (ntodo = 0: the next handle begins an iteration), and run_forever
\* returns after the iteration in which loop.stop ran.  This is the next handle.
Handle(kind, co) ==
    /\ ~halted
    /\ ready # <<>>
    /\ Head(ready).kind = kind
    /\ Head(ready).co = co
    /\ ntodo' = (IF ntodo = 0 THEN Len(ready) ELSE ntodo) - 1
    /\ stopping' = (stopping \/ kind = "loop_stop")
    /\ halted' = (ntodo' = 0 /\ stopping')
    /\ UNCHANGED <<consumer_side, started, last_adv>>

\* run_coroutine_threadsafe's callback: the task is made, its first step scheduled
CreateTask(co) ==
    /\ Handle("create", co)
    /\ ready' = Append(Tail(ready), [Head(ready) EXCEPT !.kind = "step"])
    /\ UNCHANGED <<scanner, awaiting, idle>>

CreateStartTask == CreateTask("start")
CreateStopTask == CreateTask("stop")

NewScanner == CHOOSE id \in ScannerIds \ LiveScanners :
                  \A other \in ScannerIds \ LiveScanners : id <= other

\* lines 153-155, up to the await (the BleakScanner constructor, which only
\* stores its arguments, is taken not to raise)
start_scan_begin ==
    /\ Handle("step", "start")
    /\ ready' = Tail(ready)
    /\ scanner' = Some(NewScanner)
    /\ awaiting' = Append(awaiting, [Head(ready) EXCEPT !.kind = "resume", !.sc = NewScanner])
    /\ UNCHANGED idle

\* the success is not handed to the main thread
start_scan_resume_silent ==
    /\ Handle("resume", "start")
    /\ ready' = Tail(ready)
    /\ IF Head(ready).res = None
       THEN UNCHANGED <<scanner, idle>>
       ELSE /\ scanner' = None
            /\ idle' = Append(idle, Callback("on_error", Head(ready).res[1]))
    /\ UNCHANGED awaiting

\* the except block lacks its return
start_scan_resume_no_return ==
    /\ Handle("resume", "start")
    /\ ready' = Tail(ready)
    /\ IF Head(ready).res = None
       THEN /\ idle' = Append(idle, Callback("_set_scanning", TRUE))
            /\ UNCHANGED scanner
       ELSE /\ scanner' = None
            /\ idle' = idle \o <<Callback("on_error", Head(ready).res[1]),
                                  Callback("_set_scanning", TRUE)>>
    /\ UNCHANGED awaiting

\* _start_scan sets is_scanning itself, in the worker, when the scan has started
start_scan_resume_sets_flag ==
    /\ ~halted
    /\ ready # <<>>
    /\ Head(ready).kind = "resume"
    /\ Head(ready).co = "start"
    /\ ntodo' = (IF ntodo = 0 THEN Len(ready) ELSE ntodo) - 1
    /\ stopping' = stopping
    /\ halted' = (ntodo' = 0 /\ stopping')
    /\ ready' = Tail(ready)
    /\ IF Head(ready).res = None
       THEN /\ idle' = Append(idle, Callback("_set_scanning", TRUE))
            /\ is_scanning' = TRUE
            /\ UNCHANGED scanner
       ELSE /\ scanner' = None
            /\ idle' = Append(idle, Callback("on_error", Head(ready).res[1]))
            /\ UNCHANGED is_scanning
    /\ UNCHANGED <<window, shutdown_calls, shutdown_pc, started, last_adv, awaiting>>

\* lines 155-161, after the await
start_scan_resume ==
    /\ Handle("resume", "start")
    /\ ready' = Tail(ready)
    /\ IF Head(ready).res = None
       THEN /\ idle' = Append(idle, Callback("_set_scanning", TRUE))
            /\ UNCHANGED scanner
       ELSE /\ scanner' = None
            /\ idle' = Append(idle, Callback("on_error", Head(ready).res[1]))
    /\ UNCHANGED awaiting

\* lines 164-167, up to the await
stop_scan_begin ==
    /\ Handle("step", "stop")
    /\ ready' = Tail(ready)
    /\ IF scanner = None
       THEN UNCHANGED awaiting
       ELSE awaiting' = Append(awaiting, [Head(ready) EXCEPT !.kind = "resume", !.sc = scanner[1]])
    /\ UNCHANGED <<scanner, idle>>

\* the exception of scanner.stop() is not caught and ends the coroutine
stop_scan_resume_raise ==
    /\ Handle("resume", "stop")
    /\ ready' = Tail(ready)
    /\ IF Head(ready).res = None
       THEN /\ scanner' = None
            /\ idle' = Append(idle, Callback("_set_scanning", FALSE))
       ELSE UNCHANGED <<scanner, idle>>
    /\ UNCHANGED awaiting

\* lines 167-171, after the await
stop_scan_resume ==
    /\ Handle("resume", "stop")
    /\ ready' = Tail(ready)
    /\ scanner' = None
    /\ idle' = Append(idle, Callback("_set_scanning", FALSE))
    /\ UNCHANGED awaiting

\* line 115: loop.stop runs
RunLoopStop ==
    /\ Handle("loop_stop", "-")
    /\ ready' = Tail(ready)
    /\ UNCHANGED <<scanner, awaiting, idle>>

OnDeviceCount == Cardinality({i \in 1..Len(idle) : idle[i].fn = "on_device"})

\* lines 178-204
detection_callback(adv) ==
    /\ idle' = Append(idle, Callback("on_device", MakeDevice(adv)))
    /\ last_adv' = [last_adv EXCEPT ![adv.address] = Some(MakeDevice(adv))]

\* a started scanner reports one of advs to the running loop
Advertise(advs) ==
    /\ ~halted
    /\ started # {}
    /\ OnDeviceCount < MaxIdle
    /\ \E adv \in advs : detection_callback(adv)
    /\ UNCHANGED <<consumer_side, scanner, loop, started>>

Advertisement == Advertise(RawAdvertisements)

(* ------------------------------------------------------------- adapter *)
\* the adapter ends an awaited call; the task's wake-up is scheduled
Finish(i, res) ==
    /\ awaiting' = Remove(awaiting, i)
    /\ ready' = Append(ready, [awaiting[i] EXCEPT !.res = res])
    /\ UNCHANGED <<consumer_side, scanner, ntodo, stopping, halted, idle, last_adv>>

AdapterStarts ==
    \E i \in 1..Len(awaiting) :
        /\ awaiting[i].co = "start"
        /\ started' = started \cup {awaiting[i].sc}
        /\ Finish(i, None)

\* scanner.start() raises an exception whose text is one of messages
StartFailure(messages) ==
    \E i \in 1..Len(awaiting), message \in messages :
        /\ awaiting[i].co = "start"
        /\ UNCHANGED started
        /\ Finish(i, Some(message))

AdapterFailsToStart == StartFailure(StartErrors)

AdapterFailsWithMarkers == StartFailure(ClassifyInputs)

AdapterStops ==
    \E i \in 1..Len(awaiting) :
        /\ awaiting[i].co = "stop"
        /\ started' = started \ {awaiting[i].sc}
        /\ Finish(i, None)

\* scanner.stop() raises; the scanner may or may not have stopped
AdapterFailsToStop ==
    \E i \in 1..Len(awaiting), message \in StopErrors :
        /\ awaiting[i].co = "stop"
        /\ started' \in {started, started \ {awaiting[i].sc}}
        /\ Finish(i, Some(message))

Next ==
    \/ IdleStartScanning \/ IdleSetScanning \/ IdleOnError \/ IdleOnDevice
    \/ Timeout \/ ClickScan \/ ClickStartScanning \/ ClickClear \/ SearchChanged
    \/ ShutdownStopScan \/ ShutdownWorkerStop
    \/ CreateStartTask \/ CreateStopTask
    \/ start_scan_begin \/ start_scan_resume
    \/ stop_scan_begin \/ stop_scan_resume \/ RunLoopStop
    \/ Advertisement
    \/ AdapterStarts \/ AdapterFailsToStart \/ AdapterStops \/ AdapterFailsToStop

Spec == Init /\ [][Next]_vars


(***************************************************************************)
(* Scenarios.  Spec allows every action; the specifications below keep the *)
(* actions of one scenario each, which keeps their state spaces small      *)
(* enough to explore exhaustively.                                         *)
(***************************************************************************)

\* Start path of a scan: start request, task, adapter success, hand-off.
StartPath ==
    \/ IdleStartScanning \/ IdleSetScanning \/ Timeout
    \/ CreateStartTask \/ start_scan_begin \/ start_scan_resume \/ AdapterStarts

StopPath ==
    \/ ClickScan \/ CreateStopTask \/ stop_scan_begin \/ stop_scan_resume
    \/ AdapterStops \/ AdapterFailsToStop

FailurePath == AdapterFailsToStart \/ IdleOnError

\* the user clicks "Start Scanning" during a scan: registry cleared, no new start
Restart == is_scanning /\ ClickStartScanning

\* the user clicks the scan button while the window shows "Scan"
ToggleStart == ~win_is_scanning /\ ClickScan

OneAdvertisement == {adv \in RawAdvertisements : adv.address = AddrB}

AdvertiseOne == Advertise(OneAdvertisement)

\* One scan session: the scan is started once and advertisements flow while
\* the user clears and restarts.
NextSession ==
    \/ StartPath
    \/ Restart \/ ClickClear \/ Advertisement \/ IdleOnDevice

SpecSession == Init /\ [][NextSession]_vars

\* The GLib main loop runs a timeout source that is due.
SpecSessionLive == SpecSession /\ WF_vars(Timeout)

\* Starts, possibly two at a time, that may fail, with advertisements of one
\* device; no stop.
NextRefusal ==
    \/ StartPath \/ FailurePath
    \/ ClickStartScanning \/ ToggleStart \/ AdvertiseOne \/ IdleOnDevice

SpecRefusal == Init /\ [][NextRefusal]_vars

\* the user asks for a scan again once the failure is shown ("Start Scanning"
\* of the empty view, or the header's scan button, which then shows "Scan")
Retry ==
    /\ ready = <<>> /\ awaiting = <<>> /\ idle = <<>>
    /\ ClickStartScanning

\* The start of the session fails with any of the error texts, and the user
\* tries again.
NextClassify ==
    \/ IdleStartScanning \/ Retry \/ Timeout
    \/ CreateStartTask \/ start_scan_begin \/ start_scan_resume
    \/ AdapterFailsWithMarkers \/ IdleOnError

SpecClassify == Init /\ [][NextClassify]_vars

\* One scan with advertisements of both addresses while the user types in the
\* search entry.
NextSearch == StartPath \/ Advertisement \/ IdleOnDevice \/ SearchChanged

SpecSearch == Init /\ [][NextSearch]_vars

\* an advertisement that comes when the one before it has been applied
AdvertiseMatch == idle = <<>> /\ Advertise(MatchAdvertisements)

\* One scan with advertisements of named, renamed and nameless devices while
\* the user looks for them.
NextMatch == StartPath \/ AdvertiseMatch \/ IdleOnDevice \/ SearchMatch

SpecMatch == Init /\ [][NextMatch]_vars

AdvertiseRssi == idle = <<>> /\ Advertise(RssiAdvertisements)

\* One scan in which a device is heard at every signal strength.
NextRssi == StartPath \/ AdvertiseRssi \/ IdleOnDevice

SpecRssi == Init /\ [][NextRssi]_vars

\* two advertisements of one address that differ in every field but the address
SameAddress == {adv \in RawAdvertisements : adv.address = AddrA}

AdvertiseSame == Advertise(SameAddress)

\* the user clicks the scan button while the window shows "Stop"
ToggleStop == win_is_scanning /\ ClickScan

\* Clear in every scan state: the scan of the session is started and later
\* stopped, with advertisements of one address and the Clear button.
NextClear ==
    \/ StartPath \/ ToggleStop \/ CreateStopTask \/ stop_scan_begin \/ stop_scan_resume
    \/ AdapterStops \/ ClickClear \/ AdvertiseSame \/ IdleOnDevice

SpecClear == Init /\ [][NextClear]_vars

\* an advertisement of one device that comes when nothing waits in the idle queue
AdvertiseQuiet == idle = <<>> /\ AdvertiseOne

\* Every handler that could touch the availability state: scans started one
\* after the other that fail, or run and are stopped, with advertisements,
\* Clear and the search entry.
\* the user clears the list or types when the list has settled
Settled == idle = <<>> /\ refresh_source = None
ClearSettled == Settled /\ ClickClear
SearchSettled == Settled /\ SearchChanged

NextAvailability ==
    \/ StartPath \/ FailurePath \/ Retry
    \/ ToggleStop \/ CreateStopTask \/ stop_scan_begin \/ stop_scan_resume
    \/ AdapterStops \/ AdapterFailsToStop
    \/ AdvertiseQuiet \/ IdleOnDevice \/ ClearSettled \/ SearchSettled

SpecAvailability == Init /\ [][NextAvailability]_vars

\* Scans started and stopped one after the other, with advertisements of one
\* device and the Clear button; no search text, no failure.
NextRestart ==
    \/ StartPath \/ Retry
    \/ ToggleStop \/ CreateStopTask \/ stop_scan_begin \/ stop_scan_resume \/ AdapterStops
    \/ AdvertiseQuiet \/ IdleOnDevice \/ ClearSettled

SpecRestart == Init /\ [][NextRestart]_vars

\* Starts and stops in any order with every adapter outcome; no advertisements.
NextScan == StartPath \/ StopPath \/ FailurePath \/ ClickStartScanning

SpecScan == Init /\ [][NextScan]_vars

\* the worker's loop runs the handle that is ready
WorkerStep ==
    \/ CreateStartTask \/ CreateStopTask \/ start_scan_begin \/ start_scan_resume
    \/ stop_scan_begin \/ stop_scan_resume

\* an awaited call of the adapter returns or raises
AdapterReturns == AdapterStarts \/ AdapterFailsToStart \/ AdapterStops \/ AdapterFailsToStop

\* the main loop runs the idle callback that is due
IdleDispatch == IdleStartScanning \/ IdleSetScanning \/ IdleOnError

\* SpecScan with a worker loop, an adapter and a main loop that do not starve
\* what is ready to run.
SpecScanLive ==
    SpecScan /\ WF_vars(WorkerStep) /\ WF_vars(AdapterReturns) /\ WF_vars(IdleDispatch)

\* Starts, stops and the close request; scanner.start() does not fail.
NextShutdown ==
    \/ StartPath \/ StopPath \/ ClickStartScanning
    \/ ShutdownStopScan \/ ShutdownWorkerStop \/ RunLoopStop

SpecShutdown == Init /\ [][NextShutdown]_vars


(***************************************************************************)
(* Properties                                                              *)
(***************************************************************************)

\* the on_device callbacks for address a that wait in the idle queue, oldest first
PendingFor(a) == SelectSeq(idle, LAMBDA c : c.fn = "on_device" /\ c.arg.address = a)

\* the positions of the registry that hold a device of address a
Entries(a) == {i \in 1..Len(devices) : devices[i].address = a}

\* C1: the registry holds at most one Device per address; the on_device
\* callbacks of an address wait in the order the adapter reported them (the
\* youngest is the adapter's last advertisement), and once all of them have
\* been applied the Device of the address equals the adapter's last
\* advertisement for it.
C1_RegistryHoldsLastAdvertisement ==
    \A a \in Addresses :
        /\ Cardinality(Entries(a)) <= 1
        /\ \A i \in Entries(a) : devices[i] \in {MakeDevice(adv) : adv \in RawAdvertisements}
        /\ IF PendingFor(a) = <<>>
           THEN \A i \in Entries(a) : Some(devices[i]) = last_adv[a]
           ELSE Some(PendingFor(a)[Len(PendingFor(a))].arg) = last_adv[a]

\* C1 witness: both addresses are in the registry, every advertisement has been
\* applied, and the Device of AddrA is a newer one than the list still shows.
C1_Witness ==
    /\ Len(devices) = 2
    /\ PendingFor(AddrA) = <<>> /\ PendingFor(AddrB) = <<>>
    /\ \E i \in Entries(AddrA), j \in 1..Len(list_box) :
           /\ Some(devices[i]) = last_adv[AddrA]
           /\ list_box[j] # None
           /\ list_box[j][1].address = AddrA
           /\ list_box[j][1] # devices[i]


Terminal == {UNSUPPORTED, NO_PERMISSION}

\* a step of start_scanning: the button of the empty view, the idle callback
\* of __init__, or the scan button while the window is not scanning
StartCommand == ClickStartScanning \/ IdleStartScanning \/ (~win_is_scanning /\ ClickScan)

\* C2: a start command given while the availability state is NoPermission or
\* Unsupported submits nothing to the worker, so nothing reaches the adapter,
\* and leaves both is_scanning flags, the registry and the availability state
\* as they were.
C2_StartRefused ==
    [][(bluetooth_state \in Terminal /\ StartCommand) =>
           UNCHANGED <<ready, awaiting, started, scanner, is_scanning, win_is_scanning,
                       devices, refresh_source, bluetooth_state>>]_vars

\* C2 witness: the state is NoPermission or Unsupported, the registry is not
\* empty, and a start command would otherwise clear it and submit a start.
C2_Witness ==
    /\ bluetooth_state \in Terminal
    /\ devices # <<>>
    /\ ~is_scanning
    /\ Room
    /\ ENABLED ClickStartScanning

\* C3: once bluetooth_state is NoPermission or Unsupported it keeps that value
\* in every later step.
C3_TerminalIsFinal ==
    [][(bluetooth_state \in Terminal) => (bluetooth_state' = bluetooth_state)]_vars

\* the start coroutine submitted by the start_scan call just made
JustSubmitted == ready # <<>> /\ ready[Len(ready)] = Coroutine("start", 0)

\* C4: a start_scan call made while scanning, or right after another
\* start_scan call, submits nothing: consecutive calls leave the loop with the
\* start requests of a single call.
C4_StartIdempotent ==
    [][(StartCommand /\ bluetooth_state \notin Terminal /\ (is_scanning \/ JustSubmitted)) =>
           ready' = ready]_vars

\* the number of callbacks fn(arg) in the queue q
Count(q, fn, arg) == Cardinality({i \in 1..Len(q) : q[i].fn = fn /\ q[i].arg = arg})
CountFn(q, fn) == Cardinality({i \in 1..Len(q) : q[i].fn = fn})

\* the loop runs the wake-up of a coroutine co whose await has ended
Resumed(co) ==
    /\ ready # <<>>
    /\ Head(ready).kind = "resume"
    /\ Head(ready).co = co
    /\ ready' = Tail(ready)

\* the main thread runs the idle callback fn
Delivered(fn) ==
    /\ idle # <<>>
    /\ Head(idle).fn = fn
    /\ idle' = Tail(idle)

\* C5: a start whose scanner.start() returned hands exactly one
\* _set_scanning(True) to the main thread and nothing else produces one; the
\* callback leaves the queue only by being run, once, and running it sets both
\* is_scanning flags; BLEScanner.is_scanning then stays true until a
\* _set_scanning(False), the result of a stop, is run.
C5_StartedNotifiedOnce ==
    [][/\ IF Resumed("start") /\ Head(ready).res = None
          THEN /\ Count(idle', "_set_scanning", TRUE) = Count(idle, "_set_scanning", TRUE) + 1
               /\ Len(idle') = Len(idle) + 1
          ELSE Count(idle', "_set_scanning", TRUE) <= Count(idle, "_set_scanning", TRUE)
       /\ Count(idle', "_set_scanning", TRUE) < Count(idle, "_set_scanning", TRUE) =>
              /\ Delivered("_set_scanning")
              /\ Head(idle).arg = TRUE
              /\ is_scanning' /\ win_is_scanning'
       /\ (is_scanning /\ ~is_scanning') =>
              (Delivered("_set_scanning") /\ Head(idle).arg = FALSE)]_vars

\* C5 witness: a successful start has been delivered: the adapter scans, both
\* flags are true and no _set_scanning(True) is left in the queue.
C5_Witness ==
    /\ is_scanning /\ win_is_scanning
    /\ bluetooth_state = READY
    /\ started # {}
    /\ scanner # None
    /\ Count(idle, "_set_scanning", TRUE) = 0

\* C6: a start whose scanner.start() raised hands exactly one callback to the
\* main thread, on_error with the message raised, and no _set_scanning(True),
\* and changes no flag; running on_error leaves BLEScanner.is_scanning as it
\* was, sets the window's is_scanning to false and hands on nothing.
C6_StartFailureReported ==
    [][/\ (Resumed("start") /\ Head(ready).res # None) =>
              /\ Len(idle') = Len(idle) + 1
              /\ SubSeq(idle', 1, Len(idle)) = idle
              /\ idle'[Len(idle')].fn = "on_error"
              /\ idle'[Len(idle')].arg = Head(ready).res[1]
              /\ UNCHANGED <<is_scanning, win_is_scanning, bluetooth_state>>
       /\ Delivered("on_error") =>
              /\ is_scanning' = is_scanning
              /\ ~win_is_scanning'
              /\ ready' = ready]_vars

\* C6 witness: a failed start has been reported and classified as Disabled; no
\* flag is set, nothing is in flight and the adapter does not scan.
C6_Witness ==
    /\ bluetooth_state = DISABLED
    /\ ~is_scanning /\ ~win_is_scanning
    /\ scanner = None
    /\ started = {}
    /\ idle = <<>> /\ ready = <<>> /\ awaiting = <<>>

\* C7: a stop whose scanner.stop() raised ends as a stop whose scanner.stop()
\* returned: the handle is released, exactly one callback, _set_scanning(False),
\* is handed to the main thread and no on_error; running _set_scanning(False)
\* sets both is_scanning flags to false and leaves the availability state.
C7_StopFailureSwallowed ==
    [][/\ Resumed("stop") =>
              /\ scanner' = None
              /\ Len(idle') = Len(idle) + 1
              /\ Count(idle', "_set_scanning", FALSE) = Count(idle, "_set_scanning", FALSE) + 1
              /\ CountFn(idle', "on_error") = CountFn(idle, "on_error")
       /\ (Delivered("_set_scanning") /\ Head(idle).arg = FALSE) =>
              /\ ~is_scanning' /\ ~win_is_scanning'
              /\ bluetooth_state' = bluetooth_state]_vars

\* C7 witness: during a scan, scanner.stop() has raised and the stop coroutine
\* is the next handle of the loop.
C7_Witness ==
    /\ is_scanning
    /\ ~halted
    /\ ready # <<>>
    /\ Head(ready).kind = "resume"
    /\ Head(ready).co = "stop"
    /\ Head(ready).res # None

\* the coroutines in flight that the n-th call of shutdown submitted
CountShutdown(n) ==
    Cardinality({i \in 1..Len(ready) : ready[i].shutdown = n})
    + Cardinality({i \in 1..Len(awaiting) : awaiting[i].shutdown = n})

\* the coroutines of the loop that have not called the adapter yet, and those
\* whose adapter call has not ended
NotCarriedOut ==
    Range(awaiting) \cup {h \in Range(ready) : h.kind \in {"create", "step"}}

\* C8: when run_forever has returned after a shutdown made during a scan, the
\* stop that shutdown submitted has been carried out by the adapter.
C8_StopThenTerminate == halted => \A t \in NotCarriedOut : t.shutdown # 1

AllShown == \A i \in 1..Len(devices) : \E j \in 1..Len(list_box) : list_box[j] = Some(devices[i])

\* C10: at most one deferred refresh is pending at any time, and it is the one
\* refresh_source records; an upsert leaves exactly one refresh pending however
\* many upserts came before it in the window; and when that refresh runs no
\* other is left pending and, with no search text, the list it builds has one
\* row for every Device of the registry.
C10_Coalescing ==
    /\ [](timeouts <= 1 /\ (timeouts = 1 <=> refresh_source # None))
    /\ [][/\ IdleOnDevice => timeouts' = 1
          /\ timeouts' < timeouts =>
                 /\ timeouts' = 0
                 /\ refresh_source' = None
                 /\ (visible_child' = "list" /\ search_text = <<>>) =>
                        (AllShown' /\ Len(list_box') = Len(devices))]_vars

\* C10 witness: two upserts for distinct addresses were made, no callback and
\* no refresh is pending, and the list shows both Devices.
C10_Witness ==
    /\ timeouts = 0
    /\ refresh_source = None
    /\ PendingFor(AddrA) = <<>> /\ PendingFor(AddrB) = <<>>
    /\ Len(devices) = 2
    /\ Len(list_box) = 2
    /\ AllShown

\* what a list built from the registry devs and the query shows
RowsOf(devs, query) ==
    LET filtered == Snapshot(devs, query)
    IN  IF filtered = <<>> /\ query # <<>> THEN <<None>>
        ELSE [i \in 1..Len(filtered) |-> Some(filtered[i])]

\* C11: no upsert is dropped by coalescing: after every upsert a timeout is
\* pending; refresh_source is set exactly while a timeout is pending, so a set
\* flag never stands for a timer that has already run; the refresh clears the
\* flag and builds the list from the registry as it is when it runs; and, the
\* main loop being fair to timeouts, a pending refresh eventually runs.
C11_NoUpsertDropped ==
    /\ [](refresh_source # None <=> timeouts > 0)
    /\ [][Delivered("on_device") => (refresh_source' # None /\ timeouts' > 0)]_vars
    /\ [][timeouts' < timeouts =>
              /\ refresh_source' = None
              /\ visible_child' = "list" => list_box' = RowsOf(devices', search_text')]_vars
    /\ (refresh_source # None) ~> (refresh_source = None)

\* C11 witness: after a refresh has filled the list an upsert has stored a
\* Device the list does not show, and the next refresh is pending.
C11_Witness ==
    /\ visible_child = "list"
    /\ list_box # <<>>
    /\ refresh_source # None
    /\ \E i \in 1..Len(devices) : Some(devices[i]) \notin Range(list_box)

\* the entries of the registry for the address a
EntriesOf(devs, a) == SelectSeq(devs, LAMBDA d : d.address = a)

\* C12: clear_devices empties the registry (and the rows) whatever the scan
\* state, and every on_device, so also the first one after a clear, leaves for
\* its address exactly one entry, equal in every field to the Device built from
\* that advertisement.
C12_ClearThenFresh ==
    [][/\ ClickClear => (devices' = <<>> /\ device_rows' = {} /\ refresh_source' # None)
       /\ Delivered("on_device") =>
              EntriesOf(devices', Head(idle).arg.address) = <<Head(idle).arg>>]_vars

\* C12 witness: the list still shows the entry of the first advertisement, the
\* rows were dropped by a clear, and the registry holds for the same address
\* the Device of the second advertisement alone: no name, rssi 0, not
\* connectable, although the removed entry had a name, an rssi and connectable.
C12_Witness ==
    /\ device_rows = {}
    /\ \E i \in 1..Len(list_box) :
           list_box[i] # None /\ list_box[i][1].address = AddrA /\ list_box[i][1].rssi = -45
    /\ Len(devices) = 1
    /\ devices[1].address = AddrA
    /\ devices[1].name = <<>>
    /\ devices[1].rssi = 0
    /\ ~devices[1].connectable

\* the classes of markers named by the claim
HasPermissionMarker(m) == Contains(Permission, m) \/ Contains(NotAuthorized, m)
HasNotReadyMarker(m) == Contains(NotReady, m) \/ Contains(NotPowered, m)
HasUnsupportedMarker(m) == Contains(NoAdapter, m) \/ Contains(NotSupported, m)

\* C13: on_scan_error sets bluetooth_state by the markers in the error text,
\* the first match winning: a permission marker gives NoPermission whatever
\* else the text holds; else a not-ready marker gives Disabled even with an
\* unsupported marker; else an unsupported marker gives Unsupported; a text
\* without marker gives Unknown.
C13_FirstMatchWins ==
    [][Delivered("on_error") =>
          LET m == Head(idle).arg
          IN  /\ HasPermissionMarker(m) => bluetooth_state' = NO_PERMISSION
              /\ (~HasPermissionMarker(m) /\ HasNotReadyMarker(m)) =>
                     bluetooth_state' = DISABLED
              /\ (~HasPermissionMarker(m) /\ ~HasNotReadyMarker(m) /\ HasUnsupportedMarker(m)) =>
                     bluetooth_state' = UNSUPPORTED
              /\ (~HasPermissionMarker(m) /\ ~HasNotReadyMarker(m) /\ ~HasUnsupportedMarker(m)) =>
                     bluetooth_state' = UNKNOWN]_vars

\* C13 witness: an error whose text names an unsupported marker before a
\* not-ready marker has been classified as Disabled, and the next error to be
\* classified names an unsupported marker before a permission marker.
C13_Witness ==
    /\ bluetooth_state = DISABLED
    /\ idle # <<>>
    /\ Head(idle).fn = "on_error"
    /\ Head(idle).arg = Join(NotSupported, Permission)

\* the Devices of the registry that match the query
Matching(devs, query) == {d \in Range(devs) : matches_fuzzy_search(d, query)}

\* C14: a refresh that shows the list shows exactly the Devices of the registry
\* that match the search text, each once, by non-increasing rssi, and counts
\* them; when none matches a search text that is not empty it shows the single
\* "No results" row; and a change of the search text leaves the registry alone.
C14_SnapshotFilteredSorted ==
    [][/\ (timeouts' < timeouts /\ visible_child' = "list") =>
              LET matching == Matching(devices, search_text)
              IN  /\ count_label' = Cardinality(matching)
                  /\ IF matching = {} /\ search_text # <<>>
                     THEN list_box' = <<None>>
                     ELSE /\ Len(list_box') = Cardinality(matching)
                          /\ {list_box'[i] : i \in 1..Len(list_box')} = {Some(d) : d \in matching}
                          /\ \A i, j \in 1..Len(list_box') :
                                 i < j => list_box'[i][1].rssi >= list_box'[j][1].rssi
       /\ search_text' # search_text => devices' = devices]_vars

\* C14 witness: the registry holds the second advertisement of A, stored after
\* B, and B; the query matches neither and the refresh has shown "No results".
C14_Witness ==
    /\ Len(devices) = 2
    /\ devices[1].address = AddrB
    /\ devices[2] = last_adv[AddrA][1]
    /\ devices[2].rssi = 0
    /\ search_text = <<"z">>
    /\ refresh_source = None
    /\ list_box = <<None>>
    /\ count_label = 0

\* with the query cleared the list shows A(latest)
\* before B although B was stored first.
SnapshotRestored ==
    /\ Len(devices) = 2
    /\ devices[1].address = AddrB
    /\ search_text = <<>>
    /\ refresh_source = None
    /\ list_box = <<Some(devices[2]), Some(devices[1])>>

\* q is a subsequence of s: its first character is found at some position of
\* s, any of them, and the rest of q is a subsequence of what follows it
RECURSIVE IsSubsequence(_, _)
IsSubsequence(q, s) ==
    \/ q = <<>>
    \/ \E k \in 1..Len(s) :
           s[k] = Head(q) /\ IsSubsequence(Tail(q), SubSeq(s, k + 1, Len(s)))

\* C15: matches_fuzzy_search(d, q) is true exactly when q is empty or, letter
\* case apart, q is a substring of the display name, or a subsequence of the
\* display name, or a substring of a service UUID, or a substring of the
\* address; and the list a refresh builds shows the Devices for which it is.
C15_MatchesExactly ==
    /\ [](\A d \in Range(devices) :
             matches_fuzzy_search(d, search_text) <=>
                 \/ search_text = <<>>
                 \/ Contains(lower(search_text), lower(display_name(d)))
                 \/ IsSubsequence(lower(search_text), lower(display_name(d)))
                 \/ \E u \in Range(d.service_uuids) : Contains(lower(search_text), lower(u))
                 \/ Contains(lower(search_text), lower(d.address)))
    /\ [][(timeouts' < timeouts /\ visible_child' = "list") =>
              \A d \in Range(devices) :
                  Some(d) \in Range(list_box') <=> matches_fuzzy_search(d, search_text)]_vars

\* C15 witness: with 'Pixel Buds' and a device shown as 'DbX' in the registry
\* the query 'pxbd' has been applied and the list shows 'Pixel Buds' alone.
C15_Witness ==
    /\ Len(devices) = 2
    /\ search_text = <<"p", "x", "b", "d">>
    /\ refresh_source = None
    /\ Len(list_box) = 1
    /\ list_box[1] # None
    /\ list_box[1][1].address = AddrA
    /\ \E i \in 1..2 : display_name(devices[i]) = <<"D", "b", "X">>

\* with the query 'dbx' the list shows the device named 'DbX' and not 'Pixel Buds'
NoReverseMatch ==
    /\ Len(devices) = 2
    /\ search_text = <<"d", "b", "x">>
    /\ refresh_source = None
    /\ Len(list_box) = 1
    /\ list_box[1] # None
    /\ list_box[1][1].address = AddrB

\* C16: the tier a row shows is a total classification of the rssi without
\* overlap: Excellent exactly for rssi >= -50, Good exactly for -60 <= rssi <
\* -50, Fair exactly for -70 <= rssi < -60, Weak exactly for rssi < -70.
C16_SignalTiers ==
    \A i \in 1..Len(list_box) :
        list_box[i] # None =>
            LET rssi == list_box[i][1].rssi
                tier == rssi_desc_label(list_box[i])
            IN  /\ tier \in {"Excellent", "Good", "Fair", "Weak"}
                /\ tier = "Excellent" <=> rssi >= -50
                /\ tier = "Good" <=> (-60 <= rssi /\ rssi < -50)
                /\ tier = "Fair" <=> (-70 <= rssi /\ rssi < -60)
                /\ tier = "Weak" <=> rssi < -70

\* C16 witness: the list shows a device heard at -70, on the bound of Fair.
C16_Witness ==
    /\ Len(list_box) = 1
    /\ list_box[1] # None
    /\ list_box[1][1].rssi = -70
    /\ rssi_desc_label(list_box[1]) = "Fair"

\* a stop_scan call has submitted a stop that has not finished
StopInFlight == \E t \in Range(ready) \cup Range(awaiting) : t.co = "stop"

\* C17: a stop_scan issued while is_scanning is true leads, when worker,
\* adapter and main loop are fair, to is_scanning being false, that is, to
\* _set_scanning(False) having run.
C17_StopLeadsToStopped == (is_scanning /\ StopInFlight) ~> ~is_scanning

\* C18: bluetooth_state starts as Unknown; a delivered on_scan_state(True)
\* makes it Ready from every state that is not terminal; on_scan_state(False),
\* on_device, clear_devices and a change of the search text leave it alone; and
\* it changes in no other way than by on_scan_state(True) or by the
\* classification of the error handed to on_scan_error.
C18_AvailabilityMachine ==
    /\ bluetooth_state = UNKNOWN
    /\ [][/\ (Delivered("_set_scanning") /\ Head(idle).arg /\ bluetooth_state \notin Terminal) =>
                 bluetooth_state' = READY
          /\ (Delivered("_set_scanning") /\ ~Head(idle).arg) =>
                 bluetooth_state' = bluetooth_state
          /\ (Delivered("on_device") \/ ClickClear \/ SearchChanged) =>
                 bluetooth_state' = bluetooth_state
          /\ bluetooth_state' # bluetooth_state =>
                 \/ Delivered("_set_scanning") /\ Head(idle).arg /\ bluetooth_state' = READY
                 \/ Delivered("on_error") /\ bluetooth_state' = Classify(Head(idle).arg)]_vars

\* C18 witness: a scan that started after a failure classified as Disabled has
\* been stopped: the state is Ready with both flags false, and the registry
\* holds a Device of that scan while a search text is set.
C18_Witness ==
    /\ bluetooth_state = READY
    /\ ~is_scanning /\ ~win_is_scanning
    /\ started = {}
    /\ devices # <<>>
    /\ search_text # <<>>

\* the state the consumer thread owns
consumer_owned == <<devices, device_rows, search_text, bluetooth_state, is_scanning,
                    win_is_scanning, refresh_source>>

\* a handler run by the main loop
MainStep ==
    \/ IdleDispatch \/ IdleOnDevice \/ Timeout
    \/ ClickScan \/ ClickStartScanning \/ ClickClear \/ SearchChanged

\* C19: a step of _start_scan, _stop_scan or _detection_callback leaves the
\* registry, both is_scanning flags, bluetooth_state, the search text and
\* refresh_source as they are and only adds callbacks at the end of the idle
\* queue; the consumer-owned state changes in handlers of the main loop only,
\* and the adapter handle in steps of the worker only.
C19_WorkerFrame ==
    [][/\ (WorkerStep \/ Advertisement \/ AdvertiseOne) =>
              /\ UNCHANGED consumer_owned
              /\ Len(idle') >= Len(idle)
              /\ SubSeq(idle', 1, Len(idle)) = idle
       /\ consumer_owned' # consumer_owned => MainStep
       /\ scanner' # scanner => WorkerStep]_vars

\* C19 witness: the worker has started the adapter and queued an advertisement
\* and the result of the start; the consumer's flags and registry are still as
\* they were.
C19_Witness ==
    /\ scanner # None
    /\ started # {}
    /\ Len(idle) = 2
    /\ idle[1].fn = "on_device"
    /\ idle[2] = Callback("_set_scanning", TRUE)
    /\ ~is_scanning /\ ~win_is_scanning
    /\ bluetooth_state = UNKNOWN
    /\ devices = <<>>

\* C20: at most one adapter scanner is started at any time, and a started
\* scanner is the one BLEScanner.scanner refers to.
C20_OneSessionReferenced ==
    /\ Cardinality(started) <= 1
    /\ \A sc \in started : scanner = Some(sc)

\* a start or a stop coroutine has been submitted and has not finished, or its
\* result waits in the idle queue
ScanOperationInFlight ==
    \/ \E t \in Range(ready) \cup Range(awaiting) : t.co \in {"start", "stop"}
    \/ Undelivered > 0

\* C21: between handlers of the main loop the window's is_scanning equals
\* BLEScanner.is_scanning, and when BLEScanner.is_scanning is true with no
\* start or stop in flight (none running, no result still to be delivered) the
\* adapter handle BLEScanner.scanner is set.
C21_FlagsAgree ==
    /\ win_is_scanning = is_scanning
    /\ (is_scanning /\ ~ScanOperationInFlight) => scanner # None

\* C22: whenever the list is the visible view and no refresh is pending, the
\* rows of the list are the filtered, rssi-sorted snapshot of the registry, so
\* no row of a Device that a clear or a scan start removed is shown.
C22_ListShowsSnapshot ==
    (visible_child = "list" /\ refresh_source = None) =>
        list_box = RowsOf(devices, search_text)

====
